---------------------------- MODULE Spec2Model ----------------------------
(***************************************************************************)
(* Model of the EC2 instance-type scraper of src/resize/aws.go:            *)
(* findAll, text, attr, parseRow and InstanceTypes.                        *)
(*                                                                         *)
(* Go strings are sequences of one-character strings, so that TrimSpace,   *)
(* Fields, Join, ToLower, Atoi and ParseFloat are computed character by    *)
(* character.  A document is an arena of html.Node records numbered in     *)
(* document order; a node handle is its index and 0 is the nil pointer.    *)
(***************************************************************************)
EXTENDS Integers, Sequences, FiniteSets, TLC

VARIABLES
    pc,            \* position of the one InstanceTypes call
    history,       \* the positions the call went through, in order
    resp,          \* what client.Get answers: [err, StatusCode, Body]
    root,          \* result of html.Parse (an arena), <<>> before it ran
    matrixHeader,  \* node found by findMatrix, 0 = nil
    section,       \* title-wrapper node, 0 = nil
    next,          \* table-wrapper node, 0 = nil
    rows,          \* the rows still to parse (after rows = rows[1:])
    i,             \* loop index of the row loop (0-based)
    types,         \* the slice being filled by the row loop
    parsed,        \* rows handed to parseRow so far, in call order
    ret,           \* what the call returned: [types, err]
    tree,          \* input arena of a single-function run
    arg,           \* input node of a single-function run
    out            \* result of a single-function run

vars == <<pc, history, resp, root, matrixHeader, section, next, rows, i,
          types, parsed, ret, tree, arg, out>>

callVars == <<pc, history, resp, root, matrixHeader, section, next, rows, i,
              types, parsed, ret>>

Nil == <<>>

-----------------------------------------------------------------------------
(* Strings *)

Min(S) == CHOOSE x \in S : \A y \in S : x <= y
Max(S) == CHOOSE x \in S : \A y \in S : x >= y

\* unicode.IsSpace on the Latin-1 white space that can be written here
IsSpace(c) == c \in {" ", "\t", "\n", "\r", "\f"}

\* strings.TrimSpace: the string without its leading and trailing white space
TrimSpace(s) ==
    LET keep == {k \in 1..Len(s) : ~IsSpace(s[k])}
    IN  IF keep = {} THEN <<>> ELSE SubSeq(s, Min(keep), Max(keep))

\* strings.Join
RECURSIVE Join(_, _)
Join(parts, sep) ==
    IF Len(parts) = 0 THEN <<>>
    ELSE IF Len(parts) = 1 THEN parts[1]
    ELSE parts[1] \o sep \o Join(Tail(parts), sep)

\* strings.Fields: the maximal runs of non-space characters, in order
RECURSIVE Fields(_)
Fields(s) ==
    IF Len(s) = 0 THEN <<>>
    ELSE IF IsSpace(s[1]) THEN Fields(Tail(s))
    ELSE LET stops == {k \in 1..Len(s) : IsSpace(s[k])}
             end   == IF stops = {} THEN Len(s) + 1 ELSE Min(stops)
         IN  <<SubSeq(s, 1, end - 1)>> \o Fields(SubSeq(s, end, Len(s)))

Upper == <<"A","B","C","D","E","F","G","H","I","J","K","L","M",
           "N","O","P","Q","R","S","T","U","V","W","X","Y","Z">>
Lower == <<"a","b","c","d","e","f","g","h","i","j","k","l","m",
           "n","o","p","q","r","s","t","u","v","w","x","y","z">>

LowerChar(c) ==
    IF \E k \in 1..Len(Upper) : Upper[k] = c
    THEN Lower[CHOOSE k \in 1..Len(Upper) : Upper[k] = c]
    ELSE c

\* strings.ToLower
ToLower(s) == [k \in 1..Len(s) |-> LowerChar(s[k])]

Digits == <<"0","1","2","3","4","5","6","7","8","9">>
IsDigit(c) == \E k \in 1..Len(Digits) : Digits[k] = c
DigitVal(c) == (CHOOSE k \in 1..Len(Digits) : Digits[k] = c) - 1

RECURSIVE DigitsVal(_, _)
DigitsVal(s, acc) ==
    IF Len(s) = 0 THEN acc ELSE DigitsVal(Tail(s), acc * 10 + DigitVal(s[1]))

AllDigits(s) == \A k \in 1..Len(s) : IsDigit(s[k])

\* strconv.Atoi (its path for strings shorter than 19 bytes): an optional
\* sign, then one or more decimal digits and nothing else
Atoi(s) ==
    IF Len(s) = 0 THEN [ok |-> FALSE, val |-> 0]
    ELSE LET signed == s[1] \in {"-", "+"}
             body   == IF signed THEN Tail(s) ELSE s
         IN  IF Len(body) < 1 \/ ~AllDigits(body)
             THEN [ok |-> FALSE, val |-> 0]
             ELSE [ok  |-> TRUE,
                   val |-> IF s[1] = "-" THEN 0 - DigitsVal(body, 0)
                                         ELSE DigitsVal(body, 0)]


IndexOf(s, C) ==
    LET at == {k \in 1..Len(s) : s[k] \in C}
    IN  IF at = {} THEN 0 ELSE Min(at)

\* A float64 value: a decimal mant * 10^exp, or NaN, +Inf, -Inf
Float(kind, mant, exp) == [kind |-> kind, mant |-> mant, exp |-> exp]

RECURSIVE Normalize(_, _)
Normalize(mant, exp) ==
    IF mant = 0 THEN Float("num", 0, 0)
    ELSE IF mant % 10 = 0 THEN Normalize(mant \div 10, exp + 1)
    ELSE Float("num", mant, exp)

\* The %d verb of fmt: the decimal digits of a non-negative int
RECURSIVE Itoa(_)
Itoa(n) ==
    IF n < 10 THEN <<Digits[n + 1]>>
    ELSE Itoa(n \div 10) \o <<Digits[(n % 10) + 1]>>

\* strconv.ParseFloat(s, 64) on strings without 'x', 'p' or '_' (no
\* hexadecimal mantissa, no digit separators) and short enough to stay in
\* the float64 range: "inf", "infinity" (optionally signed), "nan", or
\* [sign] digits [. digits] [e [sign] digits] with a digit in the mantissa.
\* The value is the decimal it denotes, mant * 10^exp with mant not a
\* multiple of 10: two decimals of up to 15 digits are the same float64 only
\* if they are equal.
ParseFloat(s) ==
    LET bad    == [ok |-> FALSE, val |-> Float("num", 0, 0)]
        signed == Len(s) > 0 /\ s[1] \in {"-", "+"}
        neg    == Len(s) > 0 /\ s[1] = "-"
        body   == IF signed THEN Tail(s) ELSE s
        low    == ToLower(body)
        ePos   == IndexOf(low, {"e"})
        mpart  == IF ePos = 0 THEN body ELSE SubSeq(body, 1, ePos - 1)
        epart  == IF ePos = 0 THEN <<>> ELSE SubSeq(body, ePos + 1, Len(body))
        dot    == IndexOf(mpart, {"."})
        ipart  == IF dot = 0 THEN mpart ELSE SubSeq(mpart, 1, dot - 1)
        fpart  == IF dot = 0 THEN <<>> ELSE SubSeq(mpart, dot + 1, Len(mpart))
        eneg   == Len(epart) > 0 /\ epart[1] = "-"
        edig   == IF Len(epart) > 0 /\ epart[1] \in {"-", "+"}
                  THEN Tail(epart) ELSE epart
        e      == IF eneg THEN 0 - DigitsVal(edig, 0) ELSE DigitsVal(edig, 0)
        m      == DigitsVal(ipart \o fpart, 0)
    IN  IF low \in {<<"i","n","f">>, <<"i","n","f","i","n","i","t","y">>}
        THEN [ok |-> TRUE, val |-> Float(IF neg THEN "-Inf" ELSE "+Inf", 0, 0)]
        ELSE IF ~signed /\ low = <<"n","a","n">>
        THEN [ok |-> TRUE, val |-> Float("NaN", 0, 0)]
        ELSE IF ~AllDigits(ipart \o fpart) \/ Len(ipart \o fpart) = 0
        THEN bad
        ELSE IF ePos # 0 /\ (Len(edig) = 0 \/ ~AllDigits(edig))
        THEN bad
        ELSE [ok  |-> TRUE,
              val |-> Normalize(IF neg THEN 0 - m ELSE m, e - Len(fpart))]

(* string literals of aws.go *)
YES_ == <<"y","e","s">>
INSTANCE_TYPE_MATRIX == <<"i", "n", "s", "t", "a", "n", "c", "e", "-", "t",
        "y", "p", "e", "-", "m", "a", "t", "r", "i", "x">>
SECTION == <<"s","e","c","t","i","o","n">>
TITLE_WRAPPER == <<"t","i","t","l","e","-","w","r","a","p","p","e","r">>
TABLE_WRAPPER == <<"t","a","b","l","e","-","w","r","a","p","p","e","r">>

-----------------------------------------------------------------------------
(* html.Node: the document tree *)

\* A tree as html.Parse builds it, written as a term: the node's own fields
\* and its children in document order.
Elem(atom, attrs, kids) ==
    [Type |-> "ElementNode", DataAtom |-> atom, Data |-> <<>>,
     Attr |-> attrs, kids |-> kids]
TextNode(data) ==
    [Type |-> "TextNode", DataAtom |-> "", Data |-> data,
     Attr |-> <<>>, kids |-> <<>>]
Attribute(key, val) == [Key |-> key, Val |-> val]

RECURSIVE Size(_)
RECURSIVE SizeAll(_)
Size(t) == 1 + SizeAll(t.kids)
SizeAll(ts) == IF Len(ts) = 0 THEN 0 ELSE Size(ts[1]) + SizeAll(Tail(ts))

\* The arena of a term: node k is the k-th node in document order, with the
\* Parent, FirstChild and NextSibling pointers of html.Node (0 is nil).
RECURSIVE Flat(_, _, _, _)
RECURSIVE FlatAll(_, _, _)
Flat(t, parent, self, more) ==
    <<[Parent      |-> parent,
       FirstChild  |-> IF Len(t.kids) > 0 THEN self + 1 ELSE 0,
       NextSibling |-> IF more THEN self + Size(t) ELSE 0,
       Type        |-> t.Type,
       DataAtom    |-> t.DataAtom,
       Data        |-> t.Data,
       Attr        |-> t.Attr]>>
    \o FlatAll(t.kids, self, self + 1)
FlatAll(ts, parent, first) ==
    IF Len(ts) = 0 THEN <<>>
    ELSE Flat(ts[1], parent, first, Len(ts) > 1)
         \o FlatAll(Tail(ts), parent, first + Size(ts[1]))

Arena(t) == Flat(t, 0, 1, FALSE)

-----------------------------------------------------------------------------
(* aws.go: attr, findAll, byTag, text *)

\* attr: the value of the first attribute with that key, "" if none
RECURSIVE attrIn(_, _)
attrIn(as, key) ==
    IF Len(as) = 0 THEN <<>>
    ELSE IF as[1].Key = key THEN as[1].Val
    ELSE attrIn(Tail(as), key)

attr(d, n, key) == attrIn(d[n].Attr, key)

\* The two matchers findAll is used with, as data: byTag(a) and the
\* text-node test of text().
byTag(a) == [by |-> "tag", atom |-> a]
isTextNode == [by |-> "type", atom |-> ""]

matches(d, n, matcher) ==
    IF matcher.by = "tag" THEN d[n].DataAtom = matcher.atom
    ELSE d[n].Type = "TextNode"

\* findAll: a node that matches is returned alone; otherwise the results
\* for its children, first to last, are appended.
RECURSIVE findAll(_, _, _)
RECURSIVE findAllFrom(_, _, _)
\* findAll that goes on into the subtree of a node that matches
findAllDescending(d, n, matcher) ==
    (IF matches(d, n, matcher) THEN <<n>> ELSE <<>>)
    \o findAllFrom(d, d[n].FirstChild, matcher)
findAll(d, n, matcher) ==
    IF matches(d, n, matcher) THEN <<n>>
    ELSE findAllFrom(d, d[n].FirstChild, matcher)
findAllFrom(d, c, matcher) ==
    IF c = 0 THEN <<>>
    ELSE findAll(d, c, matcher) \o findAllFrom(d, d[c].NextSibling, matcher)

\* text that returns the joined Data as it is
textUntrimmed(d, n) ==
    LET textNodes == findAll(d, n, isTextNode)
        parts     == [k \in 1..Len(textNodes) |-> d[textNodes[k]].Data]
    IN  Join(parts, <<" ">>)

\* text: the Data of the text nodes found, joined by one space, trimmed
text(d, n) ==
    LET textNodes == findAll(d, n, isTextNode)
        parts     == [k \in 1..Len(textNodes) |-> d[textNodes[k]].Data]
    IN  TrimSpace(Join(parts, <<" ">>))

-----------------------------------------------------------------------------
(* aws.go: parseRow *)

\* fmt.Errorf: the format and the formatted arguments; NoErr is a nil error
Errorf(format, args) == [format |-> format, args |-> args]
NoErr == Errorf("", <<>>)

ZeroFloat == Float("num", 0, 0)

\* InstanceType{}: the zero value of the record
ZeroInstanceType ==
    [Name |-> <<>>, CPUs |-> 0, Memory |-> ZeroFloat, Storage |-> <<>>,
     NetworkSpec |-> <<>>, Processor |-> <<>>, ClockSpeed |-> ZeroFloat,
     IntelAVX |-> FALSE, IntelAVX2 |-> FALSE, IntelTurbo |-> FALSE,
     EBSOPT |-> FALSE, EnhancedNetworking |-> FALSE]

wantColumns == 12

\* cols[k] of the Go slice (0-based)
at(cols, k) == cols[k + 1]

yesNo(d, col) == ToLower(text(d, col)) = YES_

\* the composite literal with Storage and NetworkSpec read from each other's
\* column
rowLiteralSwapped(d, cols) ==
    [Name               |-> text(d, at(cols, 0)),
     CPUs               |-> 0,
     Memory             |-> ZeroFloat,
     Storage            |-> text(d, at(cols, 4)),
     NetworkSpec        |-> text(d, at(cols, 3)),
     Processor          |-> text(d, at(cols, 5)),
     ClockSpeed         |-> ZeroFloat,
     IntelAVX           |-> yesNo(d, at(cols, 7)),
     IntelAVX2          |-> yesNo(d, at(cols, 8)),
     IntelTurbo         |-> yesNo(d, at(cols, 9)),
     EBSOPT             |-> yesNo(d, at(cols, 10)),
     EnhancedNetworking |-> yesNo(d, at(cols, 11))]

\* the composite literal of lines 40-50: the numeric fields are still zero
rowLiteral(d, cols) ==
    [Name               |-> text(d, at(cols, 0)),
     CPUs               |-> 0,
     Memory             |-> ZeroFloat,
     Storage            |-> text(d, at(cols, 3)),
     NetworkSpec        |-> text(d, at(cols, 4)),
     Processor          |-> text(d, at(cols, 5)),
     ClockSpeed         |-> ZeroFloat,
     IntelAVX           |-> yesNo(d, at(cols, 7)),
     IntelAVX2          |-> yesNo(d, at(cols, 8)),
     IntelTurbo         |-> yesNo(d, at(cols, 9)),
     EBSOPT             |-> yesNo(d, at(cols, 10)),
     EnhancedNetworking |-> yesNo(d, at(cols, 11))]

\* the numeric fields with a ClockSpeed that is not a number left at zero
rowNumbersLenient(d, cols, t) ==
    LET cpus   == Atoi(text(d, at(cols, 1)))
        memory == ParseFloat(text(d, at(cols, 2)))
        clock  == ParseFloat(text(d, at(cols, 6)))
    IN  IF ~cpus.ok
        THEN [t   |-> ZeroInstanceType,
              err |-> Errorf("expected number for CPUs, got '%s'",
                             <<text(d, at(cols, 1))>>)]
        ELSE IF ~memory.ok
        THEN [t   |-> ZeroInstanceType,
              err |-> Errorf("expected number for Memory, got '%s'",
                             <<text(d, at(cols, 2))>>)]
        ELSE [t   |-> [t EXCEPT !.CPUs = cpus.val, !.Memory = memory.val,
                                !.ClockSpeed = clock.val],
              err |-> NoErr]

\* lines 51-68: CPUs, Memory, ClockSpeed in that order, the first failure
\* returns InstanceType{} and the error
rowNumbers(d, cols, t) ==
    LET cpus   == Atoi(text(d, at(cols, 1)))
        memory == ParseFloat(text(d, at(cols, 2)))
        clock  == ParseFloat(text(d, at(cols, 6)))
    IN  IF ~cpus.ok
        THEN [t   |-> ZeroInstanceType,
              err |-> Errorf("expected number for CPUs, got '%s'",
                             <<text(d, at(cols, 1))>>)]
        ELSE IF ~memory.ok
        THEN [t   |-> ZeroInstanceType,
              err |-> Errorf("expected number for Memory, got '%s'",
                             <<text(d, at(cols, 2))>>)]
        ELSE IF ~clock.ok
        THEN [t   |-> ZeroInstanceType,
              err |-> Errorf("expected number for Memory, got '%s'",
                             <<text(d, at(cols, 2))>>)]
        ELSE [t   |-> [t EXCEPT !.CPUs = cpus.val, !.Memory = memory.val,
                                !.ClockSpeed = clock.val],
              err |-> NoErr]

parseRow(d, row) ==
    LET cols == findAll(d, row, byTag("Td"))
    IN  IF Len(cols) # wantColumns
        THEN [t   |-> ZeroInstanceType,
              err |-> Errorf("expected 12 columns, got %d", <<Itoa(Len(cols))>>)]
        ELSE rowNumbers(d, cols, rowLiteral(d, cols))

-----------------------------------------------------------------------------
(* aws.go: InstanceTypes, the section search *)

\* findMatrix: the first node in document order whose id is the anchor's
RECURSIVE findMatrix(_, _)
RECURSIVE findMatrixFrom(_, _)
findMatrix(d, node) ==
    IF attr(d, node, "id") = INSTANCE_TYPE_MATRIX THEN node
    ELSE findMatrixFrom(d, d[node].FirstChild)
findMatrixFrom(d, c) ==
    IF c = 0 THEN 0
    ELSE LET n == findMatrix(d, c)
         IN  IF n # 0 THEN n ELSE findMatrixFrom(d, d[c].NextSibling)

contains(sli, ele) == \E k \in 1..Len(sli) : sli[k] = ele

hasClasses(d, n, a, b) ==
    LET classes == Fields(attr(d, n, "class"))
    IN  contains(classes, a) /\ contains(classes, b)

\* the loop of lines 154-159, entered with section = matrixHeader.Parent
RECURSIVE titleWrapperFrom(_, _)
titleWrapperFrom(d, sec) ==
    IF sec = 0 THEN 0
    ELSE IF hasClasses(d, sec, SECTION, TITLE_WRAPPER) THEN sec
    ELSE titleWrapperFrom(d, d[sec].Parent)

\* the loop entered with section = matrixHeader
titleWrapperFromHeader(d, header) == titleWrapperFrom(d, header)

titleWrapper(d, header) == titleWrapperFrom(d, d[header].Parent)

\* the loop of lines 164-169, entered with next = section.NextSibling
RECURSIVE tableWrapperFrom(_, _)
tableWrapperFrom(d, nxt) ==
    IF nxt = 0 THEN 0
    ELSE IF hasClasses(d, nxt, SECTION, TABLE_WRAPPER) THEN nxt
    ELSE tableWrapperFrom(d, d[nxt].NextSibling)

tableWrapper(d, sec) == tableWrapperFrom(d, d[sec].NextSibling)

ErrNoAnchor == Errorf("no node with id 'instance-type-matrix'", <<>>)
ErrNoTitle  == Errorf("malformed HTML: title-wrapper not found", <<>>)
ErrNoTable  == Errorf("malformed HTML: table-wrapper not found", <<>>)
ErrTooSmall == Errorf("malformed HTML: could not find table", <<>>)

\* lines 126-172 as one function of the document
locate(d) ==
    LET header == findMatrix(d, 1)
        sec    == titleWrapper(d, header)
        nxt    == tableWrapper(d, sec)
        none   == [matrixHeader |-> 0, section |-> 0, next |-> 0, err |-> NoErr]
    IN  IF header = 0 THEN [none EXCEPT !.err = ErrNoAnchor]
        ELSE IF sec = 0
        THEN [none EXCEPT !.matrixHeader = header, !.err = ErrNoTitle]
        ELSE IF nxt = 0
        THEN [none EXCEPT !.matrixHeader = header, !.section = sec,
                          !.err = ErrNoTable]
        ELSE [matrixHeader |-> header, section |-> sec, next |-> nxt,
              err |-> NoErr]

-----------------------------------------------------------------------------
(* Documents of bounded size *)

\* A label is a node without its children.  A text node has the empty tag
\* and no children.
ElemLabel(atom, attrs) ==
    [Type |-> "ElementNode", DataAtom |-> atom, Data |-> <<>>, Attr |-> attrs]
TextLabel(data) ==
    [Type |-> "TextNode", DataAtom |-> "", Data |-> data, Attr |-> <<>>]
WithKids(l, kids) ==
    [Type |-> l.Type, DataAtom |-> l.DataAtom, Data |-> l.Data,
     Attr |-> l.Attr, kids |-> kids]

\* The members of a set of labels, one after the other
RECURSIVE SeqOf(_)
SeqOf(S) ==
    IF S = {} THEN <<>>
    ELSE LET x == CHOOSE y \in S : TRUE IN <<x>> \o SeqOf(S \ {x})

\* Every shape of exactly n nodes that can stand below a node of tag under:
\* a shape is a tree whose nodes hold the index of their label in the
\* sequence labels, and <<p, c>> \in nest says that a node of tag c can be a
\* child of one of tag p.
RECURSIVE TreesOf(_, _, _, _)
RECURSIVE ForestsOf(_, _, _, _)
TreesOf(n, labels, nest, under) ==
    UNION {{[label |-> l, kids |-> kids] :
                l \in {x \in DOMAIN labels : labels[x].DataAtom = atom},
                kids \in ForestsOf(n - 1, labels, nest, atom)}
           : atom \in {labels[x].DataAtom : x \in {y \in DOMAIN labels :
                           <<under, labels[y].DataAtom>> \in nest}}}
ForestsOf(n, labels, nest, under) ==
    IF n = 0 THEN {<<>>}
    ELSE UNION {{<<t>> \o rest : t \in TreesOf(k, labels, nest, under),
                                rest \in ForestsOf(n - k, labels, nest, under)}
                : k \in 1..n}

\* "#document" stands for the place of the tree's root
TreesUpTo(n, labels, nest) ==
    UNION {TreesOf(k, labels, nest, "#document") : k \in 1..n}

\* The tree of a shape: every index replaced by its label
RECURSIVE Labelled(_, _)
RECURSIVE LabelledAll(_, _)
Labelled(t, labels) == WithKids(labels[t.label], LabelledAll(t.kids, labels))
LabelledAll(ts, labels) ==
    IF Len(ts) = 0 THEN <<>>
    ELSE <<Labelled(ts[1], labels)>> \o LabelledAll(Tail(ts), labels)

Nodes(d) == 1..Len(d)

\* m lies in the subtree rooted at n (n itself included)
RECURSIVE Within(_, _, _)
Within(d, m, n) ==
    IF m = n THEN TRUE
    ELSE IF m = 0 THEN FALSE
    ELSE Within(d, d[m].Parent, n)

\* The members of a set of nodes in document order
RECURSIVE InOrder(_)
InOrder(S) ==
    IF S = {} THEN <<>> ELSE <<Min(S)>> \o InOrder(S \ {Min(S)})

NoCall == [fn |-> "", val |-> <<>>]

idleCall ==
    /\ pc = "Unused" /\ history = <<>> /\ resp = Nil /\ root = Nil
    /\ matrixHeader = 0 /\ section = 0 /\ next = 0 /\ rows = <<>> /\ i = 0
    /\ types = <<>> /\ parsed = <<>> /\ ret = Nil

-----------------------------------------------------------------------------
(* findAll on every small tree *)

MaxFindNodes == 8

\* table > tbody > tr > td > (text | table), as html.Parse nests them
FindLabels ==
    <<ElemLabel("Table", <<>>), ElemLabel("Tbody", <<>>), ElemLabel("Tr", <<>>),
      ElemLabel("Td", <<>>), TextLabel(<<"a">>)>>
FindNest ==
    {<<"#document", a>> : a \in {"Table", "Tr", "Td"}}
    \cup {<<"Table", "Tbody">>, <<"Tbody", "Tr">>, <<"Tr", "Td">>,
          <<"Td", "Table">>, <<"Td", "">>}
FindMatchers == {byTag("Tr"), byTag("Td"), isTextNode}

InitFind ==
    /\ idleCall
    /\ \E t \in TreesUpTo(MaxFindNodes, FindLabels, FindNest) :
          tree = Arena(Labelled(t, FindLabels))
    /\ arg = 0
    /\ out = NoCall

CallFindAll ==
    /\ out.fn = ""
    /\ \E n \in Nodes(tree), matcher \in FindMatchers :
          /\ arg' = [n |-> n, matcher |-> matcher]
          /\ out' = [fn |-> "findAll", val |-> findAll(tree, n, matcher)]
    /\ UNCHANGED <<tree, callVars>>

NextFind == CallFindAll

SpecFind == InitFind /\ [][NextFind]_vars

\* the nodes of n's subtree that satisfy the matcher
Matching(d, n, matcher) ==
    {m \in Nodes(d) : Within(d, m, n) /\ matches(d, m, matcher)}

\* those of them with no matching proper ancestor inside the subtree
Outermost(d, n, matcher) ==
    {m \in Matching(d, n, matcher) :
        \A a \in Matching(d, n, matcher) : a = m \/ ~Within(d, m, a)}

\* C4 as stated: findAll(root, p) is every node of the subtree of root that
\* satisfies p, in document order, a match not pruning its subtree.
FindAllReturnsEveryMatch ==
    out.fn = "findAll" => out.val = InOrder(Matching(tree, arg.n, arg.matcher))

\* C4 amended: findAll(root, p) is, in document order, every node of the
\* subtree of root that satisfies p and has no proper ancestor inside that
\* subtree satisfying p: a match prunes its subtree.
FindAllReturnsOutermostMatches ==
    out.fn = "findAll" => out.val = InOrder(Outermost(tree, arg.n, arg.matcher))

\* C4 witness: a search that found two nodes while a third match, nested in a
\* match, was left out.
FindAllPrunedNestedMatch ==
    /\ out.fn = "findAll"
    /\ Len(out.val) >= 2
    /\ Matching(tree, arg.n, arg.matcher) # Outermost(tree, arg.n, arg.matcher)

-----------------------------------------------------------------------------
(* text on every small tree *)

MaxTextNodes == 4
MaxData == 1

RECURSIVE StringsOf(_, _)
StringsOf(n, alphabet) ==
    IF n = 0 THEN {<<>>}
    ELSE {<<c>> \o s : c \in alphabet, s \in StringsOf(n - 1, alphabet)}

TextDatas ==
    UNION {StringsOf(n, {"a", " "}) : n \in 1..MaxData}
    \cup {<<"\n", "a", "\t">>, <<"a", "\t", "\n", "a">>}

\* a cell, inline markup in it, text in both
TextLabels ==
    <<ElemLabel("Td", <<>>), ElemLabel("B", <<>>)>>
    \o SeqOf({TextLabel(data) : data \in TextDatas})
TextNest ==
    {<<"#document", "Td">>, <<"Td", "B">>, <<"B", "B">>, <<"Td", "">>, <<"B", "">>}

InitText ==
    /\ idleCall
    /\ \E t \in TreesUpTo(MaxTextNodes, TextLabels, TextNest) :
          tree = Arena(Labelled(t, TextLabels))
    /\ arg = 0
    /\ out = NoCall

CallText ==
    /\ out.fn = ""
    /\ \E n \in Nodes(tree) :
          /\ arg' = [n |-> n]
          /\ out' = [fn |-> "text", val |-> text(tree, n)]
    /\ UNCHANGED <<tree, callVars>>

NextText == CallText

SpecText == InitText /\ [][NextText]_vars

\* the text nodes of n's subtree, in document order
TextNodesUnder(d, n) ==
    InOrder({m \in Nodes(d) : Within(d, m, n) /\ d[m].Type = "TextNode"})

\* their Data, one space between two of them
RECURSIVE Spaced(_, _)
Spaced(d, ns) ==
    IF Len(ns) = 0 THEN <<>>
    ELSE IF Len(ns) = 1 THEN d[ns[1]].Data
    ELSE d[ns[1]].Data \o <<" ">> \o Spaced(d, Tail(ns))

AllSpace(s) == \A k \in 1..Len(s) : IsSpace(s[k])

DoubleSpace(s) == \E k \in 1..Len(s) - 1 : IsSpace(s[k]) /\ IsSpace(s[k + 1])

\* C9 as stated: text(n) is the text of the descendant text nodes joined by
\* single spaces, trimmed, with every run of white space collapsed to one
\* space, so it never holds two consecutive white-space characters.
TextIsCollapsed ==
    out.fn = "text" =>
        /\ out.val = Join(Fields(Spaced(tree, TextNodesUnder(tree, arg.n))), <<" ">>)
        /\ ~DoubleSpace(out.val)

\* C9 amended: text(n) is the Data of the descendant text nodes in document
\* order with one space between two of them, less its leading and trailing
\* white space; white space inside is kept as it is.
TextIsTrimmedJoin ==
    out.fn = "text" =>
        LET raw == Spaced(tree, TextNodesUnder(tree, arg.n))
            val == out.val
        IN  /\ val # <<>> => ~IsSpace(val[1]) /\ ~IsSpace(val[Len(val)])
            /\ \E a \in 0..Len(raw) :
                  /\ a + Len(val) <= Len(raw)
                  /\ SubSeq(raw, a + 1, a + Len(val)) = val
                  /\ AllSpace(SubSeq(raw, 1, a))
                  /\ AllSpace(SubSeq(raw, a + Len(val) + 1, Len(raw)))

\* C9 witness: the text of a node with two text nodes below it, trimmed at an
\* end and with a run of white space left inside.
TextKeptInnerRun ==
    /\ out.fn = "text"
    /\ Len(TextNodesUnder(tree, arg.n)) >= 2
    /\ DoubleSpace(out.val)
    /\ Len(out.val) < Len(Spaced(tree, TextNodesUnder(tree, arg.n)))

-----------------------------------------------------------------------------
(* the section search on every small tree *)

MaxLocateNodes == 4

\* class="section title-wrapper"
ClassTitle == Attribute("class", <<"s", "e", "c", "t", "i", "o", "n", " ",
        "t", "i", "t", "l", "e", "-", "w", "r", "a", "p", "p", "e", "r">>)
\* class="table-wrapper<TAB>section"
ClassTable == Attribute("class", <<"t", "a", "b", "l", "e", "-", "w", "r",
        "a", "p", "p", "e", "r", "\t", "s", "e", "c", "t", "i", "o", "n">>)
\* class="subsection title-wrappers table-wrapper-x": the words only as
\* parts of longer tokens
ClassAlike == Attribute("class", <<"s", "u", "b", "s", "e", "c", "t", "i",
        "o", "n", " ", "t", "i", "t", "l", "e", "-", "w", "r", "a", "p", "p",
        "e", "r", "s", " ", "t", "a", "b", "l", "e", "-", "w", "r", "a", "p",
        "p", "e", "r", "-", "x">>)
IdMatrix == Attribute("id", INSTANCE_TYPE_MATRIX)

LocateLabels ==
    <<ElemLabel("Div", <<IdMatrix>>), ElemLabel("Div", <<ClassTitle>>),
      ElemLabel("Div", <<ClassTable>>),
      ElemLabel("Div", <<IdMatrix, ClassTitle>>),
      ElemLabel("Div", <<ClassAlike>>)>>
LocateNest == {<<"#document", "Div">>, <<"Div", "Div">>}

InitLocate ==
    /\ idleCall
    /\ \E t \in TreesUpTo(MaxLocateNodes, LocateLabels, LocateNest) :
          tree = Arena(Labelled(t, LocateLabels))
    /\ arg = 0
    /\ out = NoCall

CallLocate ==
    /\ out.fn = ""
    /\ arg' = [n |-> 1]
    /\ out' = [fn |-> "locate", val |-> locate(tree)]
    /\ UNCHANGED <<tree, callVars>>

NextLocate == CallLocate

SpecLocate == InitLocate /\ [][NextLocate]_vars

\* the white-space separated tokens of a string
Tokens(s) ==
    {SubSeq(s, a, b) : <<a, b>> \in
        {p \in (1..Len(s)) \X (1..Len(s)) :
            /\ p[1] <= p[2]
            /\ \A k \in p[1]..p[2] : ~IsSpace(s[k])
            /\ p[1] = 1 \/ IsSpace(s[p[1] - 1])
            /\ p[2] = Len(s) \/ IsSpace(s[p[2] + 1])}}

ClassOf(d, n) ==
    LET cs == {k \in 1..Len(d[n].Attr) : d[n].Attr[k].Key = "class"}
    IN  IF cs = {} THEN <<>> ELSE d[n].Attr[Min(cs)].Val

IsTitle(d, n) == {SECTION, TITLE_WRAPPER} \subseteq Tokens(ClassOf(d, n))
IsTable(d, n) == {SECTION, TABLE_WRAPPER} \subseteq Tokens(ClassOf(d, n))

Anchors(d) ==
    {n \in Nodes(d) : \E k \in 1..Len(d[n].Attr) :
        d[n].Attr[k] = Attribute("id", INSTANCE_TYPE_MATRIX)}

LaterSiblings(d, n) ==
    {m \in Nodes(d) : m > n /\ d[n].Parent # 0 /\ d[m].Parent = d[n].Parent}

\* what the search returns when the header is looked for in chain: no
\* anchor, no header in the chain, no table-wrapper after the header, each
\* with an error of its own, else the first table-wrapper after the nearest
\* header
Located(d, chain) ==
    LET headers == {h \in chain : IsTitle(d, h)}
        tables  == {t \in LaterSiblings(d, Max(headers)) : IsTable(d, t)}
    IN  IF Anchors(d) = {} THEN [err |-> ErrNoAnchor, next |-> 0]
        ELSE IF headers = {} THEN [err |-> ErrNoTitle, next |-> 0]
        ELSE IF tables = {} THEN [err |-> ErrNoTable, next |-> 0]
        ELSE [err |-> NoErr, next |-> Min(tables)]

FirstAnchor(d) == Min(Anchors(d))

-----------------------------------------------------------------------------
(* parseRow on rows of the instance-type matrix *)

ExtraColumns == 1

\* <td>data</td>; an empty cell has no text node
Cell(data) == Elem("Td", <<>>, IF data = <<>> THEN <<>> ELSE <<TextNode(data)>>)

\* <td>3<b>.75</b></td>
SplitCell == Elem("Td", <<>>, <<TextNode(<<"3">>), Elem("B", <<>>,
        <<TextNode(<<".", "7", "5">>)>>)>>)

\* <td>4<table><tbody><tr><td>ssd</td></tr></tbody></table></td>: a cell
\* holding a table
NestingCell ==
    Elem("Td", <<>>,
         <<TextNode(<<"4">>),
           Elem("Table", <<>>,
                <<Elem("Tbody", <<>>,
                       <<Elem("Tr", <<>>, <<Cell(<<"s", "s", "d">>)>>)>>)>>)>>)

NameCells  == {Cell(<<"m", "3">>), Cell(<<>>), Cell(<<" ", "\n">>)}
CPUCells   == {Cell(<<" ", "8", "\n">>), Cell(<<"n", "/", "a">>), Cell(<<>>)}
MemCells   == {Cell(<<"3", ".", "7", "5">>), Cell(<<"n", "/", "a">>),
        Cell(<<"n", "a", "n">>), SplitCell}
ClockCells == {Cell(<<"2", ".", "5">>), Cell(<<"-">>), Cell(<<"1", "e", "1">>)}
StoreCells == {Cell(<<"4", " ", "s", "s", "d">>), NestingCell}
FlagTexts  == {<<"Y", "e", "s">>, <<"Y", "E", "S">>, <<"y", "e", "s">>, <<"N",
        "o">>, <<>>, <<"n", "/", "a">>, <<"m", "a", "y", "b", "e">>}
FlagColumns == 7..11

\* a row: the twelve cells (0-based columns as in InstanceType), cut or
\* padded to n cells
RowOf(name, cpus, mem, store, clock, flagCol, flag, n) ==
    LET twelve == <<name, cpus, mem, store, Cell(<<"l", "o", "w">>),
            Cell(<<"x", "e", "o", "n">>), clock>>
                  \o [k \in 1..5 |-> IF k + 6 = flagCol THEN Cell(flag)
                                                       ELSE Cell(<<"N", "o">>)]
    IN  Elem("Tr", <<>>,
             [k \in 1..n |-> IF k <= Len(twelve) THEN twelve[k] ELSE Cell(<<"x">>)])

ColumnCounts == (wantColumns - ExtraColumns)..(wantColumns + ExtraColumns)

RowTrees ==
    {RowOf(name, cpus, mem, store, clock, flagCol, flag, n) :
        name \in NameCells, cpus \in CPUCells, mem \in MemCells,
        store \in StoreCells, clock \in ClockCells,
        flagCol \in FlagColumns, flag \in FlagTexts, n \in ColumnCounts}

InitRow ==
    /\ idleCall
    /\ tree \in {Arena(t) : t \in RowTrees}
    /\ arg = 0
    /\ out = NoCall

CallParseRow ==
    /\ out.fn = ""
    /\ arg' = [n |-> 1]
    /\ out' = [fn |-> "parseRow", val |-> parseRow(tree, 1)]
    /\ UNCHANGED <<tree, callVars>>

NextRow == CallParseRow

SpecRow == InitRow /\ [][NextRow]_vars

\* the cells the search of parseRow finds in the row
CellsOf(d, row) == findAll(d, row, byTag("Td"))
CellText(d, row, k) == text(d, at(CellsOf(d, row), k))

ErrColumns(format) == format = "expected 12 columns, got %d"

\* C10: parseRow fails with the column-count error carrying the count
\* whenever the search finds a number of cells other than 12, and then reads
\* no field; with 12 cells it never gives that error and, when it succeeds,
\* field k is the value of the k-th cell found.
ParseRowColumnCount ==
    out.fn = "parseRow" =>
        LET n == Len(CellsOf(tree, 1))
            t == out.val.t
            T(k) == CellText(tree, 1, k)
            Flag(k) == ToLower(T(k)) = YES_
        IN  IF n # 12
            THEN /\ ErrColumns(out.val.err.format)
                 /\ Len(out.val.err.args) = 1
                 /\ AllDigits(out.val.err.args[1])
                 /\ DigitsVal(out.val.err.args[1], 0) = n
                 /\ t = ZeroInstanceType
            ELSE /\ ~ErrColumns(out.val.err.format)
                 /\ out.val.err = NoErr =>
                      /\ t.Name = T(0)
                      /\ t.CPUs = Atoi(T(1)).val
                      /\ t.Memory = ParseFloat(T(2)).val
                      /\ t.Storage = T(3)
                      /\ t.NetworkSpec = T(4)
                      /\ t.Processor = T(5)
                      /\ t.ClockSpeed = ParseFloat(T(6)).val
                      /\ t.IntelAVX = Flag(7)
                      /\ t.IntelAVX2 = Flag(8)
                      /\ t.IntelTurbo = Flag(9)
                      /\ t.EBSOPT = Flag(10)
                      /\ t.EnhancedNetworking = Flag(11)

\* C10 witness: parseRow refused a row of 13 cells.
ParseRowRefusedThirteen ==
    /\ out.fn = "parseRow"
    /\ Len(CellsOf(tree, 1)) = 13
    /\ ErrColumns(out.val.err.format)

\* C5: on a 12-cell row whose CPUs, Memory or ClockSpeed cell is not a
\* number, parseRow's error names that field and quotes that cell's text.
ParseRowNamesBadField ==
    out.fn = "parseRow" /\ Len(CellsOf(tree, 1)) = 12 =>
        LET T(k) == CellText(tree, 1, k)
        IN  IF ~Atoi(T(1)).ok
            THEN out.val.err = Errorf("expected number for CPUs, got '%s'", <<T(1)>>)
            ELSE IF ~ParseFloat(T(2)).ok
            THEN out.val.err = Errorf("expected number for Memory, got '%s'", <<T(2)>>)
            ELSE IF ~ParseFloat(T(6)).ok
            THEN out.val.err = Errorf("expected number for ClockSpeed, got '%s'", <<T(6)>>)
            ELSE TRUE

-----------------------------------------------------------------------------
(* aws.go: InstanceTypes, one call *)

StatusOK == 200

MaxRows == 4

\* the rows a page is made of
RowA == RowOf(Cell(<<"m", "3">>), Cell(<<" ", "8", "\n">>), Cell(<<"3", ".",
        "7", "5">>), Cell(<<"4", " ", "s", "s", "d">>),
              Cell(<<"2", ".", "5">>), 7, <<"Y", "e", "s">>, wantColumns)
\* a row whose Storage cell holds a table with a row of its own
RowB == RowOf(Cell(<<"t", "2">>), Cell(<<"+", "1">>), Cell(<<"n", "a", "n">>),
        NestingCell,
              Cell(<<"1", "e", "1">>), 11, <<"y", "e", "s">>, wantColumns)
\* a row with a blank name cell
RowE == RowOf(Cell(<<" ", "\n">>), Cell(<<"2">>), Cell(<<".", "5">>), Cell(<<>>),
              Cell(<<"3", ".">>), 9, <<"Y", "E", "S">>, wantColumns)
\* a row whose ClockSpeed cell is not a number
RowX == RowOf(Cell(<<"c", "4">>), Cell(<<"4">>), Cell(<<"7", ".", "5">>),
        Cell(<<"e", "b", "s">>),
              Cell(<<"-">>), 8, <<"N", "o">>, wantColumns)
\* a heading row: th cells only
RowH == Elem("Tr", <<>>, <<Elem("Th", <<>>, <<TextNode(<<"N", "a", "m", "e">>)>>),
                           Elem("Th", <<>>, <<TextNode(<<"v", "C", "P", "U">>)>>)>>)

RowKinds == {RowA, RowB, RowE, RowX, RowH}

RECURSIVE TablesOf(_)
TablesOf(n) ==
    IF n = 0 THEN {<<>>}
    ELSE {<<r>> \o rest : r \in RowKinds, rest \in TablesOf(n - 1)}

Tables == UNION {TablesOf(n) : n \in 0..MaxRows}

\* the page: a title block holding the anchor, a block in between, and the
\* block holding the table
Page(anchorAttr, titleAttr, tableAttr, table) ==
    [Type |-> "DocumentNode", DataAtom |-> "", Data |-> <<>>, Attr |-> <<>>,
     kids |-> <<Elem("Html", <<>>, <<Elem("Head", <<>>, <<>>), Elem("Body", <<>>,
        <<Elem("Div", titleAttr,
               <<Elem("H2", anchorAttr, <<TextNode(<<"M", "a", "t", "r", "i",
                       "x">>)>>)>>),
          Elem("Div", <<ClassAlike>>, <<>>),
          Elem("Div", tableAttr,
               <<Elem("Table", <<>>, <<Elem("Tbody", <<>>, table)>>)>>)>>)>>)>>]

GoodPage(table) == Page(<<IdMatrix>>, <<ClassTitle>>, <<ClassTable>>, table)

SampleTable == <<RowH, RowA, RowB>>

Pages ==
    {GoodPage(table) : table \in Tables}
    \cup {Page(<<>>, <<ClassTitle>>, <<ClassTable>>, SampleTable),
          Page(<<IdMatrix>>, <<ClassAlike>>, <<ClassTable>>, SampleTable),
          Page(<<IdMatrix>>, <<ClassTitle>>, <<ClassAlike>>, SampleTable)}

\* a body whose read fails while html.Parse consumes it
BrokenBody == <<"unexpected EOF">>

ErrTransport == Errorf("Get http://aws.amazon.com/ec2/instance-types/: EOF", <<>>)
ErrBody      == Errorf("unexpected EOF", <<>>)

Response(err, code, body) ==
    [err |-> err, StatusCode |-> code, Status |-> Itoa(code), Body |-> body]

\* what client.Get can answer
Responses ==
    {Response(ErrTransport, 0, BrokenBody)}
    \cup {Response(NoErr, code, Arena(GoodPage(SampleTable))) : code \in {204, 404, 503}}
    \cup {Response(NoErr, StatusOK, BrokenBody)}
    \cup {Response(NoErr, StatusOK, Arena(page)) : page \in Pages}

Init ==
    /\ pc = "Idle"
    /\ history = <<"Idle">>
    /\ resp = Nil
    /\ root = Nil
    /\ matrixHeader = 0 /\ section = 0 /\ next = 0
    /\ rows = <<>> /\ i = 0 /\ types = <<>> /\ parsed = <<>>
    /\ ret = Nil
    /\ tree = Nil /\ arg = 0 /\ out = NoCall

goto(phase) ==
    /\ pc' = phase
    /\ history' = Append(history, phase)

\* return nil, err
fail(err) ==
    /\ goto("Failed")
    /\ ret' = [types |-> <<>>, err |-> err]

\* line 113: client.Get(instanceTypeURL) is issued
Get ==
    /\ pc = "Idle"
    /\ resp' \in Responses
    /\ goto("Fetching")
    /\ UNCHANGED <<root, matrixHeader, section, next, rows, i, types, parsed,
                   ret, tree, arg, out>>

\* no look at the status code
statusUnchecked(r) == TRUE

statusOk(r) == r.StatusCode = StatusOK

\* lines 113-119: the answer is in
Fetched ==
    /\ pc = "Fetching"
    /\ IF resp.err # NoErr THEN fail(resp.err)
       ELSE IF ~statusOk(resp)
       THEN fail(Errorf("bad response from AWS: %s", <<resp.Status>>))
       ELSE goto("Parsing") /\ ret' = ret
    /\ UNCHANGED <<resp, root, matrixHeader, section, next, rows, i, types,
                   parsed, tree, arg, out>>

\* lines 121-124: html.Parse(resp.Body)
Parse ==
    /\ pc = "Parsing"
    /\ IF resp.Body = BrokenBody
       THEN fail(ErrBody) /\ root' = root
       ELSE goto("LocatingSection") /\ root' = resp.Body /\ ret' = ret
    /\ UNCHANGED <<resp, matrixHeader, section, next, rows, i, types, parsed,
                   tree, arg, out>>

\* lines 126-172: the anchor, the title-wrapper above it, the table-wrapper
\* after that
Locate ==
    /\ pc = "LocatingSection"
    /\ LET found == locate(root)
       IN  /\ matrixHeader' = found.matrixHeader
           /\ section' = found.section
           /\ next' = found.next
           /\ IF found.err # NoErr THEN fail(found.err)
              ELSE goto("EnumeratingRows") /\ ret' = ret
    /\ UNCHANGED <<resp, root, rows, i, types, parsed, tree, arg, out>>

\* the test off by one
tooSmallUnderTwo(rs) == Len(rs) < 2

tooSmall(rs) == Len(rs) < 3

\* rows = rows[2:]
dropTwo(rs) == Tail(Tail(rs))

\* rows = rows[1:]
dropHeader(rs) == Tail(rs)

\* lines 173-179
Enumerate ==
    /\ pc = "EnumeratingRows"
    /\ LET found == findAll(root, next, byTag("Tr"))
       IN  IF tooSmall(found)
           THEN fail(ErrTooSmall) /\ UNCHANGED <<rows, types>>
           ELSE /\ rows' = dropHeader(found)
                /\ types' = [k \in 1..Len(rows') |-> ZeroInstanceType]
                /\ goto("ParsingRows")
                /\ ret' = ret
    /\ i' = 0
    /\ UNCHANGED <<resp, root, matrixHeader, section, next, parsed, tree, arg, out>>

\* return types[:i], err
rowFailurePartial(ts, k, err) == [types |-> SubSeq(ts, 1, k), err |-> err]

\* line 183 in the row loop: return nil, err
rowFailure(ts, k, err) == [types |-> <<>>, err |-> err]

\* lines 180-185: one turn of the row loop
ParseRowStep ==
    /\ pc = "ParsingRows"
    /\ i < Len(rows)
    /\ LET r == parseRow(root, rows[i + 1])
       IN  /\ types' = [types EXCEPT ![i + 1] = r.t]
           /\ parsed' = Append(parsed, rows[i + 1])
           /\ IF r.err # NoErr
              THEN goto("Failed") /\ ret' = rowFailure(types', i, r.err) /\ i' = i
              ELSE i' = i + 1 /\ UNCHANGED <<pc, history, ret>>
    /\ UNCHANGED <<resp, root, matrixHeader, section, next, rows, tree, arg, out>>

\* line 186: return types, nil
Return ==
    /\ pc = "ParsingRows"
    /\ i = Len(rows)
    /\ goto("Done")
    /\ ret' = [types |-> types, err |-> NoErr]
    /\ UNCHANGED <<resp, root, matrixHeader, section, next, rows, i, types,
                   parsed, tree, arg, out>>

Next == Get \/ Fetched \/ Parse \/ Locate \/ Enumerate \/ ParseRowStep \/ Return

Spec == Init /\ [][Next]_vars

-----------------------------------------------------------------------------
(* Properties of one InstanceTypes call *)

Terminal == pc \in {"Done", "Failed"}

\* the rows of the table-wrapper, in document order: the tr nodes below it
\* that are not inside another tr
Enumerated == InOrder(Outermost(root, next, byTag("Tr")))

Parses(row) == parseRow(root, row).err = NoErr

\* C1: where the section is located and the table-wrapper has N >= 3
\* enumerated rows of which rows 2..N all parse, InstanceTypes succeeds with
\* exactly N-1 records, record k being the parse of enumerated row k+1: only
\* the first row is dropped, the others are parsed once each, in order.
InstanceTypesReturnsRowsInOrder ==
    Terminal /\ next # 0 =>
        LET en == Enumerated
            N  == Len(en)
        IN  N >= 3 /\ (\A k \in 2..N : Parses(en[k])) =>
                /\ pc = "Done"
                /\ ret.err = NoErr
                /\ Len(ret.types) = N - 1
                /\ \A k \in 1..(N - 1) : ret.types[k] = parseRow(root, en[k + 1]).t
                /\ parsed = SubSeq(en, 2, N)

\* C1 witness: a catalog of three different records was returned, and the
\* row that was dropped was a data row that parses like the others.
ReturnedThreeAfterDataRow ==
    /\ pc = "Done"
    /\ Len(ret.types) = 3
    /\ Cardinality({ret.types[k] : k \in 1..3}) = 3
    /\ Parses(Enumerated[1])

\* C2: a call ends with an error and no records, or with no error and a
\* record for every row but the first; when a row after the first does not
\* parse, the error is that of the first such row and no record is returned.
InstanceTypesAllOrNothing ==
    /\ pc = "Failed" => ret.types = <<>> /\ ret.err # NoErr
    /\ pc = "Done" =>
          /\ ret.err = NoErr
          /\ Len(ret.types) = Len(Enumerated) - 1
          /\ \A k \in 2..Len(Enumerated) :
                Parses(Enumerated[k])
                /\ ret.types[k - 1] = parseRow(root, Enumerated[k]).t
    /\ Terminal /\ next # 0 /\ Len(Enumerated) >= 3 =>
          LET failing == {k \in 2..Len(Enumerated) : ~Parses(Enumerated[k])}
          IN  failing # {} =>
                 /\ pc = "Failed"
                 /\ ret.types = <<>>
                 /\ ret.err = parseRow(root, Enumerated[Min(failing)]).err

\* C2 witness: the call failed on its third row to parse, with two records
\* already in the slice, and returned none of them.
FailedAfterTwoRecords ==
    /\ pc = "Failed"
    /\ i = 2
    /\ types[1] # ZeroInstanceType /\ types[2] # ZeroInstanceType
    /\ ret.types = <<>>

Order ==
    <<"Idle", "Fetching", "Parsing", "LocatingSection", "EnumeratingRows",
      "ParsingRows", "Done">>

IsPrefix(a, b) == Len(a) <= Len(b) /\ SubSeq(b, 1, Len(a)) = a

Entered(phase) == \E k \in 1..Len(history) : history[k] = phase

\* C3: a call goes through Idle, Fetching, Parsing, LocatingSection,
\* EnumeratingRows, ParsingRows, Done in that order; a failure leads from a
\* phase straight to Failed, the last position; nothing of a phase is done
\* before the phase is entered, and a transport error or a status other than
\* 200 fails the call from Fetching with no document parsed, no section
\* located and no row parsed.
PhasesInOrder ==
    /\ pc = history[Len(history)]
    /\ \/ IsPrefix(history, Order)
       \/ /\ Len(history) >= 3
          /\ history[Len(history)] = "Failed"
          /\ IsPrefix(SubSeq(history, 1, Len(history) - 1),
                      SubSeq(Order, 1, Len(Order) - 1))
    /\ ~Entered("Parsing") => root = Nil
    /\ ~Entered("LocatingSection") => matrixHeader = 0 /\ section = 0 /\ next = 0
    /\ ~Entered("EnumeratingRows") => rows = <<>> /\ types = <<>>
    /\ ~Entered("ParsingRows") => parsed = <<>>
    /\ pc \notin {"Idle", "Fetching"}
          /\ (resp.err # NoErr \/ resp.StatusCode # StatusOK) =>
             /\ history = <<"Idle", "Fetching", "Failed">>
             /\ ret.types = <<>> /\ ret.err # NoErr

\* C3 witness: a 503 answer carrying a page that parses failed the call.
FailedOnStatus503 ==
    /\ pc = "Failed"
    /\ resp.err = NoErr
    /\ resp.StatusCode = 503
    /\ locate(resp.Body).err = NoErr

\* C7: with fewer than 3 enumerated rows in the table-wrapper the call fails
\* with the table-too-small error and parseRow is called on no row; with 3
\* or more rows that error is not given.
TooSmallIffFewerThanThree ==
    Terminal /\ next # 0 =>
        IF Len(Enumerated) < 3
        THEN pc = "Failed" /\ ret.err = ErrTooSmall /\ parsed = <<>>
        ELSE ret.err # ErrTooSmall

\* C7 witness: a table of two rows that both parse was refused as too small.
RefusedTwoGoodRows ==
    /\ pc = "Failed"
    /\ ret.err = ErrTooSmall
    /\ Len(Enumerated) = 2
    /\ Parses(Enumerated[1]) /\ Parses(Enumerated[2])

\* the records parseRow has returned without error so far, with their rows
Returned ==
    IF pc \in {"ParsingRows", "Done", "Failed"} THEN 1..i ELSE {}

\* C6 as stated: every record parseRow returns without error, and so every
\* record of a returned catalog, has a Name that is not empty after trimming.
ReturnedNamesNotEmpty ==
    /\ \A k \in Returned : TrimSpace(types[k].Name) # <<>>
    /\ pc = "Done" => \A k \in 1..Len(ret.types) : TrimSpace(ret.types[k].Name) # <<>>

\* C6 amended: every record parseRow returns without error, and so every
\* record of a returned catalog, has CPUs, Memory and ClockSpeed parsed from
\* cells 1, 2 and 6, which are numbers, and a Name that is the text of cell 0
\* with no white space at either end; the Name may be empty.
ReturnedRecordsNumericAndTrimmed ==
    /\ \A k \in Returned :
          LET t == types[k]
              T(c) == CellText(root, rows[k], c)
              raw == Spaced(root, TextNodesUnder(root, at(CellsOf(root, rows[k]), 0)))
          IN  /\ Atoi(T(1)).ok /\ t.CPUs = Atoi(T(1)).val
              /\ ParseFloat(T(2)).ok /\ t.Memory = ParseFloat(T(2)).val
              /\ ParseFloat(T(6)).ok /\ t.ClockSpeed = ParseFloat(T(6)).val
              /\ t.Name = TrimSpace(raw)
              /\ t.Name # <<>> =>
                    ~IsSpace(t.Name[1]) /\ ~IsSpace(t.Name[Len(t.Name)])
    /\ pc = "Done" => ret.types = types /\ Returned = 1..Len(rows)

\* C6 witness: a catalog was returned with a record whose Name is empty,
\* parsed from a row whose name cell holds white space only.
ReturnedEmptyName ==
    /\ pc = "Done"
    /\ \E k \in 1..Len(ret.types) :
          /\ ret.types[k].Name = <<>>
          /\ TextNodesUnder(root, at(CellsOf(root, rows[k]), 0)) # <<>>

=============================================================================
